---- MODULE Spec2Model ----
(***************************************************************************)
(* Model of check-secrets.py: the secret verification script.              *)
(*                                                                         *)
(* A text value (a command's stdout, a secret's value) is a sequence of    *)
(* Unicode code points, so that prefix, suffix, strip and character class  *)
(* tests are computed as Python computes them on any character.  Text      *)
(* literals are written Text(<<"s", "k", "-">>).  A display message is a   *)
(* TLA+ string, built by concatenation as the f-strings build it.  It      *)
(* holds the message in the form of Python's unicode_escape codec, which   *)
(* is one to one: printable ASCII as itself, the backslash doubled, \t, \n *)
(* and \r, then \xNN, \uNNNN and \UNNNNNNNN for every other character.     *)
(* The one departure is the backtick, written \x60, which a TLA+ string    *)
(* cannot hold.                                                            *)
(* Left out of the printed text: the colour escape codes of print_colored, *)
(* the rules of "=" signs, the blank lines, and the marks U+2713 and       *)
(* U+2717 that start the two gcloud lines.  What the encoding of stdout    *)
(* cannot encode is the set unencodable: a print of a text with one of its *)
(* characters raises UnicodeEncodeError, which nothing catches.  Every     *)
(* encoding is taken to encode ASCII.  A command whose output cannot be    *)
(* decoded makes subprocess.run raise, which run_command turns into status *)
(* 1: the Failure result.                                                  *)
(***************************************************************************)
EXTENDS Integers, Sequences, FiniteSets

VARIABLES
    pc,               \* where main is: "start", "loop", "report", "done"
    idx,              \* position of the loop in SECRETS
    results,          \* main's list results
    missing_secrets,  \* main's list missing_secrets
    found_secrets,    \* main's list found_secrets
    checks,           \* main's locals has_anthropic_key .. has_urls
    prereq,           \* the gcloud --version commands run_command has executed
    fetched,          \* the secret fetches run_command has executed
    out,              \* the text printed so far, one entry per print call
    exit_code,        \* the exit status of the process, -1 while it runs
    unencodable       \* the characters sys.stdout's encoding cannot encode

vars == <<pc, idx, results, missing_secrets, found_secrets, checks, prereq,
          fetched, out, exit_code, unencodable>>

(***************************************************************************)
(* Bounds of the model.                                                    *)
(***************************************************************************)
\* longest generated value body in the probe specification
MaxLen == 65
\* most whitespace characters generated on each side of a value
MaxPad == 1
\* most fetch failures of one run in the value specification
MaxMissing == 1

(***************************************************************************)
(* Program constants.                                                      *)
(***************************************************************************)
\* mutant: jwt-secret dropped from the list
SECRETS_NoJwt ==
    << "anthropic-api-key", "claude-api-key", "encryption-key",
       "token-encryption-key", "database-url", "db-password",
       "google-client-id", "google-client-secret", "backend-url",
       "frontend-url", "app-oauth-redirect-uri", "oauth-redirect-uri",
       "mcp-oauth-redirect-uri" >>

PROJECT_ID == "professional-website-462321"

SECRETS ==
    << "anthropic-api-key", "claude-api-key", "jwt-secret", "encryption-key",
       "token-encryption-key", "database-url", "db-password",
       "google-client-id", "google-client-secret", "backend-url",
       "frontend-url", "app-oauth-redirect-uri", "oauth-redirect-uri",
       "mcp-oauth-redirect-uri" >>

URL_SECRETS ==
    << "backend-url", "frontend-url", "app-oauth-redirect-uri",
       "oauth-redirect-uri", "mcp-oauth-redirect-uri" >>

\* jwt-secret: length >= 32
JwtMinLen == 32
\* encryption-key: len(decoded) == 32
KeyBytes == 32
\* token-encryption-key: length == 64
TokenLen == 64
\* google-client-id: value[:min(20, len(value))]
ClientIdShown == 20
\* the mark U+2713 that starts the line "gcloud installed"
CheckMark == 10003
\* the mark U+2717 that starts the line "gcloud CLI not found"
CrossMark == 10007

\* the printable ASCII characters, code points 32 to 126, in order (the
\* backtick, which a TLA+ string cannot hold, as its escape)
Printable ==
    <<
       " ", "!", "\"", "#", "$", "%", "&", "'", "(", ")", "*", "+",
       ",", "-", ".", "/", "0", "1", "2", "3", "4", "5", "6", "7",
       "8", "9", ":", ";", "<", "=", ">", "?", "@", "A", "B", "C",
       "D", "E", "F", "G", "H", "I", "J", "K", "L", "M", "N", "O",
       "P", "Q", "R", "S", "T", "U", "V", "W", "X", "Y", "Z", "[",
       "\\", "]", "^", "_", "\\x60", "a", "b", "c", "d", "e", "f", "g",
       "h", "i", "j", "k", "l", "m", "n", "o", "p", "q", "r", "s",
       "t", "u", "v", "w", "x", "y", "z", "{", "|", "}", "~" >>

\* ord(ch) of a character written as a one-character string
Ord(ch) ==
    IF ch = "\t" THEN 9
    ELSE IF ch = "\n" THEN 10
    ELSE IF ch = "\f" THEN 12
    ELSE IF ch = "\r" THEN 13
    ELSE CHOOSE c \in 32..126 : Printable[c - 31] = ch

\* the text whose characters are the given one-character strings
Text(chars) == [k \in 1..Len(chars) |-> Ord(chars[k])]

SK_ANT == Text(<<"s", "k", "-", "a", "n", "t", "-">>)
GOCSPX == Text(<<"G", "O", "C", "S", "P", "X", "-">>)
HTTPS == Text(<<"h", "t", "t", "p", "s", ":", "/", "/">>)
GOOGLE_SUFFIX ==
    Text(<< ".", "a", "p", "p", "s", ".", "g", "o", "o", "g", "l", "e", "u", "s",
       "e", "r", "c", "o", "n", "t", "e", "n", "t", ".", "c", "o", "m" >>)

(***************************************************************************)
(* Text helpers: Python's str operations on character sequences.           *)
(***************************************************************************)
HexDigitStr ==
    << "0", "1", "2", "3", "4", "5", "6", "7", "8", "9",
       "a", "b", "c", "d", "e", "f" >>

\* the hexadecimal digit of c at position k, counted from the right
HexAt(c, k) == HexDigitStr[((c \div (16 ^ k)) % 16) + 1]

\* chr(c) as it stands in a message: its unicode_escape form
Chr(c) ==
    IF c = 92 THEN "\\\\"
    ELSE IF c \in 32..126 THEN Printable[c - 31]
    ELSE IF c = 9 THEN "\\t"
    ELSE IF c = 10 THEN "\\n"
    ELSE IF c = 13 THEN "\\r"
    ELSE IF c < 256 THEN "\\x" \o HexAt(c, 1) \o HexAt(c, 0)
    ELSE IF c < 65536
    THEN "\\u" \o HexAt(c, 3) \o HexAt(c, 2) \o HexAt(c, 1) \o HexAt(c, 0)
    ELSE "\\U" \o HexAt(c, 7) \o HexAt(c, 6) \o HexAt(c, 5) \o HexAt(c, 4)
               \o HexAt(c, 3) \o HexAt(c, 2) \o HexAt(c, 1) \o HexAt(c, 0)

\* print(text) does not raise: stdout's encoding encodes every character
CanPrint(text) == \A k \in 1..Len(text) : text[k] \notin unencodable

\* the characters str.strip() removes: those with str.isspace() true
Whitespace ==
    {9, 10, 11, 12, 13, 28, 29, 30, 31, 32, 133, 160, 5760}
        \cup (8192..8202) \cup {8232, 8233, 8239, 8287, 12288}

\* [0-9a-fA-F]
HexChars == (48..57) \cup (97..102) \cup (65..70)

\* the base64 alphabet: A-Z, a-z, 0-9, + and /
Base64Chars == (65..90) \cup (97..122) \cup (48..57) \cup {43, 47}

\* subprocess.run(text=True): "\r\n" and "\r" in the output become "\n"
UniversalNewlines(s) ==
    IF \A k \in 1..Len(s) : s[k] # 13 THEN s ELSE
    LET keep == {k \in 1..Len(s) : ~(s[k] = 10 /\ k > 1 /\ s[k - 1] = 13)}
        nth(n) == CHOOSE k \in keep :
                      Cardinality({j \in keep : j <= k}) = n
    IN  [n \in 1..Cardinality(keep) |->
            IF s[nth(n)] = 13 THEN 10 ELSE s[nth(n)]]

Min(a, b) == IF a <= b THEN a ELSE b

\* value.startswith(prefix)
StartsWith(value, prefix) ==
    /\ Len(value) >= Len(prefix)
    /\ SubSeq(value, 1, Len(prefix)) = prefix

\* value.endswith(suffix)
EndsWith(value, suffix) ==
    /\ Len(value) >= Len(suffix)
    /\ SubSeq(value, Len(value) - Len(suffix) + 1, Len(value)) = suffix

RECURSIVE LStrip(_)
LStrip(s) ==
    IF s # <<>> /\ Head(s) \in Whitespace THEN LStrip(Tail(s)) ELSE s

RECURSIVE RStrip(_)
RStrip(s) ==
    IF s # <<>> /\ s[Len(s)] \in Whitespace
    THEN RStrip(SubSeq(s, 1, Len(s) - 1))
    ELSE s

\* s.strip()
Strip(s) == RStrip(LStrip(s))

\* the characters of a text as one string: "{value}" in an f-string
RECURSIVE Join(_)
Join(s) ==
    IF s = <<>> THEN ""
    ELSE IF Len(s) = 1 THEN Chr(s[1])
    ELSE Join(SubSeq(s, 1, Len(s) \div 2))
             \o Join(SubSeq(s, Len(s) \div 2 + 1, Len(s)))

DigitStr == <<"0", "1", "2", "3", "4", "5", "6", "7", "8", "9">>

\* "{n}" in an f-string, n a natural number
RECURSIVE IntStr(_)
IntStr(n) ==
    IF n < 10 THEN DigitStr[n + 1]
    ELSE IntStr(n \div 10) \o DigitStr[(n % 10) + 1]

\* stdout.split('\n')[0]
RECURSIVE FirstLine(_)
FirstLine(s) ==
    IF s = <<>> \/ Head(s) = Ord("\n") THEN <<>>
    ELSE <<Head(s)>> \o FirstLine(Tail(s))

\* re.match(r'^[0-9a-fA-F]{64}$', value) for a value of length 64
MatchesHex64(value) ==
    /\ Len(value) = TokenLen
    /\ \A k \in 1..Len(value) : value[k] \in HexChars

(***************************************************************************)
(* len(base64.b64decode(value)), or -1 where b64decode raises.  The        *)
(* decoder skips characters outside the alphabet, stops at a complete pad  *)
(* sequence, and raises when the data ends inside a quad or the value has  *)
(* a character that is not ASCII.                                          *)
(***************************************************************************)
B64Start == [quad_pos |-> 0, pads |-> 0, nbytes |-> 0, done |-> FALSE]

\* one iteration of the decoder's loop, on character ch
B64Step(st, ch) ==
    IF st.done THEN st
    ELSE IF ch = Ord("=")
    THEN IF st.quad_pos >= 2
         THEN IF st.quad_pos + st.pads + 1 >= 4
              THEN [st EXCEPT !.done = TRUE]
              ELSE [st EXCEPT !.pads = st.pads + 1]
         ELSE st
    ELSE IF ch \notin Base64Chars THEN st
    ELSE [ quad_pos |-> (st.quad_pos + 1) % 4,
           pads |-> 0,
           nbytes |-> IF st.quad_pos = 0 THEN st.nbytes ELSE st.nbytes + 1,
           done |-> FALSE ]

\* the decoder's loop over the characters of s, left to right
RECURSIVE B64Scan(_, _)
B64Scan(st, s) ==
    IF s = <<>> THEN st
    ELSE IF Len(s) = 1 THEN B64Step(st, s[1])
    ELSE LET half == B64Scan(st, SubSeq(s, 1, Len(s) \div 2)) IN
         IF half.done THEN half
         ELSE B64Scan(half, SubSeq(s, Len(s) \div 2 + 1, Len(s)))

\* b64decode of a str encodes it to ASCII first and raises when it cannot
DecodedLen(value) ==
    IF \E k \in 1..Len(value) : value[k] > 127 THEN -1
    ELSE LET st == B64Scan(B64Start, value) IN
         IF ~st.done /\ st.quad_pos # 0 THEN -1 ELSE st.nbytes

(***************************************************************************)
(* The validation rule chain of the loop body: the display message of a    *)
(* fetched value.                                                          *)
(***************************************************************************)
\* mutant: a shorter prefix is accepted
ApiKeyRuleShortPrefix(value) ==
    IF StartsWith(value, Text(<<"s", "k", "-">>))
    THEN "sk-ant-****... " \o IntStr(Len(value)) \o " chars OK"
    ELSE "INVALID FORMAT! Should start with 'sk-ant-'"

ApiKeyRule(value) ==
    IF StartsWith(value, SK_ANT)
    THEN "sk-ant-****... " \o IntStr(Len(value)) \o " chars OK"
    ELSE "INVALID FORMAT! Should start with 'sk-ant-'"

\* mutant: > in place of >=
JwtRuleStrict(value) ==
    IF Len(value) > JwtMinLen
    THEN "****... " \o IntStr(Len(value)) \o " chars OK"
    ELSE "TOO SHORT! Only " \o IntStr(Len(value)) \o " chars (need 32+)"

JwtRule(value) ==
    IF Len(value) >= JwtMinLen
    THEN "****... " \o IntStr(Len(value)) \o " chars OK"
    ELSE "TOO SHORT! Only " \o IntStr(Len(value)) \o " chars (need 32+)"

EncryptionKeyRule(value) ==
    LET n == DecodedLen(value) IN
    IF n < 0 THEN "INVALID BASE64!"
    ELSE IF n = KeyBytes THEN "****... (base64, 32 bytes) OK"
    ELSE "WRONG SIZE! " \o IntStr(n) \o " bytes (need 32)"

\* mutant: the length is tested, the characters are not
TokenRuleLengthOnly(value) ==
    IF Len(value) = TokenLen
    THEN "****... (64 hex chars) OK"
    ELSE "INVALID! Need 64 hex chars, got " \o IntStr(Len(value))

TokenRule(value) ==
    IF Len(value) = TokenLen /\ MatchesHex64(value)
    THEN "****... (64 hex chars) OK"
    ELSE "INVALID! Need 64 hex chars, got " \o IntStr(Len(value))

ClientIdRule(value) ==
    IF EndsWith(value, GOOGLE_SUFFIX)
    THEN Join(SubSeq(value, 1, Min(ClientIdShown, Len(value)))) \o "... OK"
    ELSE "INVALID FORMAT! Should end with .apps.googleusercontent.com"

ClientSecretRule(value) ==
    IF StartsWith(value, GOCSPX)
    THEN "GOCSPX-****... " \o IntStr(Len(value)) \o " chars OK"
    ELSE "INVALID FORMAT! Should start with 'GOCSPX-'"

UrlRule(value) ==
    IF StartsWith(value, HTTPS)
    THEN Join(value) \o " OK"
    ELSE Join(value) \o " WARNING (Should use HTTPS)"

DefaultRule(value) == "****... " \o IntStr(Len(value)) \o " chars OK"

InSeq(x, s) == \E k \in 1..Len(s) : s[k] = x

Validate(secret, value) ==
    IF secret = "anthropic-api-key" THEN ApiKeyRule(value)
    ELSE IF secret = "claude-api-key" THEN ApiKeyRule(value)
    ELSE IF secret = "jwt-secret" THEN JwtRule(value)
    ELSE IF secret = "encryption-key" THEN EncryptionKeyRule(value)
    ELSE IF secret = "token-encryption-key" THEN TokenRule(value)
    ELSE IF secret = "google-client-id" THEN ClientIdRule(value)
    ELSE IF secret = "google-client-secret" THEN ClientSecretRule(value)
    ELSE IF InSeq(secret, URL_SECRETS) THEN UrlRule(value)
    ELSE DefaultRule(value)

\* the characters of the value that the display message holds
Shown(secret, value) ==
    IF secret = "google-client-id" /\ EndsWith(value, GOOGLE_SUFFIX)
    THEN SubSeq(value, 1, Min(ClientIdShown, Len(value)))
    ELSE IF InSeq(secret, URL_SECRETS) THEN value
    ELSE <<>>

\* value = stdout.strip()
ValueOf(stdout) == Strip(stdout)

\* has_whitespace = value != value.strip(), value being stdout.strip()
HasWhitespace(stdout) == ValueOf(stdout) # Strip(ValueOf(stdout))

\* the result recorded for a fetch that returned status 0
FoundResult(secret, stdout) ==
    [ secret |-> secret,
      status |-> "Found",
      length |-> Len(ValueOf(stdout)),
      has_whitespace |-> HasWhitespace(stdout),
      display |-> Validate(secret, ValueOf(stdout)) ]

\* the result recorded for a fetch that returned a non-zero status
MissingResult(secret) ==
    [ secret |-> secret,
      status |-> "Missing",
      length |-> 0,
      has_whitespace |-> FALSE,
      display |-> "Not found" ]

(***************************************************************************)
(* The environment: what run_command can return.                           *)
(***************************************************************************)
\* the character c, n times
Rep(c, n) == [k \in 1..n |-> c]

\* what stdout cannot encode, of the characters a run can print: nothing
\* (utf-8); all that is not ASCII (ascii); the mark U+2717, U+2003 and
\* U+1F600, but not the mark U+2713 (euc_jisx0213)
EncodesAll == {}
EncodesAscii == {CheckMark, CrossMark, 160, 233, 8195, 8364, 128512}
EncodesCheckMark == {CrossMark, 8195, 128512}
Encodings == {EncodesAll, EncodesAscii, EncodesCheckMark}

\* run_command when the command exits with a status other than 0
Failure == [rc |-> 1, stdout |-> <<>>]
\* run_command when the command writes the given text and exits with 0
Success(written) == [rc |-> 0, stdout |-> UniversalNewlines(written)]

\* gcloud --version: installed (with a version line that has U+1F600 in it,
\* and without one) or absent
VersionResults ==
    { Success(Text(<<"S", "D", "K", " ">>) \o <<128512>>
                  \o Text(<<" ", "4", "\r", "\n", "b", "q", " ", "2", "\r", "\n">>)),
      Success(<<>>),
      Failure,
      [rc |-> 127, stdout |-> <<>>] }

HEX16 ==
    Text(<< "a", "b", "c", "d", "e", "f", "0", "1", "2", "3", "4", "5", "6", "7",
       "8", "9" >>)

\* a well-formed stored value of each secret
Canonical(secret) ==
    IF secret \in {"anthropic-api-key", "claude-api-key"}
    THEN SK_ANT \o Text(<<"a", "b", "c", "1", "2", "3">>)
    ELSE IF secret = "jwt-secret" THEN Rep(Ord("j"), JwtMinLen)
    ELSE IF secret = "encryption-key" THEN Rep(Ord("A"), 43) \o Text(<<"=">>)
    ELSE IF secret = "token-encryption-key"
    THEN HEX16 \o HEX16 \o HEX16 \o HEX16
    ELSE IF secret = "google-client-id" THEN Text(<<"7">>) \o GOOGLE_SUFFIX
    ELSE IF secret = "google-client-secret" THEN GOCSPX \o Text(<<"s">>)
    ELSE IF InSeq(secret, URL_SECRETS) THEN HTTPS \o Text(<<"u">>)
    ELSE Text(<<"p", "w">>)

\* what gcloud writes for stored values that break the secret's rule, carry
\* whitespace (ASCII or not) or hold a character that is not ASCII (U+00E9
\* in a key, U+1F600 in a URL)
Alternates(secret) ==
    IF secret = "anthropic-api-key"
    THEN {Text(<<"k", "e", "y">>), Canonical(secret) \o Text(<<"\n">>)}
    ELSE IF secret = "jwt-secret"
    THEN {Rep(Ord("j"), JwtMinLen - 1)}
    ELSE IF secret = "encryption-key"
    THEN {Rep(Ord("A"), 40), <<233>> \o Canonical(secret)}
    ELSE IF secret = "token-encryption-key" THEN {Rep(Ord("g"), TokenLen)}
    ELSE IF secret = "db-password"
    THEN {<<9, 11, 160>> \o Text(<<"p", "w", "\r", "\n">>) \o <<8195, 31>>}
    ELSE IF secret = "google-client-id" THEN {Text(<<"7">>)}
    ELSE IF secret = "google-client-secret" THEN {Text(<<"s">>)}
    ELSE IF secret = "backend-url"
    THEN {Text(<<"h", "t", "t", "p", ":", "/", "/", "u">>),
          Text(<<"h", "t", "t", "p", ":", "/", "/", "u">>) \o <<128512>>}
    ELSE {}

\* presence specification: a secret is absent or holds its canonical value
PresenceResults(secret) == {Failure, Success(Canonical(secret))}

\* value specification: a stored secret holds any of its values
ValueResults(secret) ==
    {Failure} \cup
    {Success(s) : s \in {Canonical(secret)} \cup Alternates(secret)}

(***************************************************************************)
(* main                                                                    *)
(***************************************************************************)
NoChecks ==
    [ has_anthropic_key |-> FALSE, has_jwt_secret |-> FALSE,
      has_database |-> FALSE, has_oauth |-> FALSE, has_urls |-> FALSE ]

Init ==
    /\ pc = "start"
    /\ idx = 1
    /\ results = <<>>
    /\ missing_secrets = <<>>
    /\ found_secrets = <<>>
    /\ checks = NoChecks
    /\ prereq = <<>>
    /\ fetched = <<>>
    /\ out = <<>>
    /\ exit_code = -1
    /\ unencodable \in Encodings

\* if exit_code == 0, after run_command(["gcloud", "--version"])
PrereqOk(r) == r.rc = 0

\* version = stdout.split('\n')[0] if stdout else "Unknown"
VersionOf(stdout) ==
    IF stdout # <<>> THEN Join(FirstLine(stdout)) ELSE "Unknown"

\* what main prints before the version command runs
TitleOutput ==
    << "AI Agent Backend - Secret Verification",
       "Project: " \o PROJECT_ID,
       "Checking gcloud installation..." >>

\* the print of the result of the version command raises: the line starts
\* with a mark and, after a success, holds the version
GcloudRaises(r) ==
    IF PrereqOk(r)
    THEN CheckMark \in unencodable \/ ~CanPrint(FirstLine(r.stdout))
    ELSE CrossMark \in unencodable

\* what the title and the installation check print; nothing is printed
\* once a print has raised
GcloudOutput(r) ==
    IF GcloudRaises(r) THEN TitleOutput
    ELSE IF PrereqOk(r)
    THEN TitleOutput \o
         << "gcloud installed: " \o VersionOf(r.stdout),
            "Checking secrets in Secret Manager..." >>
    ELSE TitleOutput \o
         << "gcloud CLI not found. Please install it first.",
            "  Download from: https://cloud.google.com/sdk/docs/install" >>

\* the title and the gcloud installation check: the process ends with
\* status 1 by sys.exit(1) when the command fails, and by the uncaught
\* UnicodeEncodeError when the line of the result cannot be printed
CheckGcloud ==
    /\ pc = "start"
    /\ \E r \in VersionResults :
          /\ prereq' = Append(prereq, r)
          /\ out' = out \o GcloudOutput(r)
          /\ pc' = IF PrereqOk(r) /\ ~GcloudRaises(r) THEN "loop" ELSE "done"
          /\ exit_code' = IF PrereqOk(r) /\ ~GcloudRaises(r)
                          THEN exit_code ELSE 1
    /\ UNCHANGED <<idx, results, missing_secrets, found_secrets, checks,
                   fetched, unencodable>>

\* if exit_code == 0, after the fetch of a secret
Succeeded(r) == r.rc = 0

\* the print of the "  Value:" line raises: the message holds characters
\* of the value that stdout cannot encode
ValueRaises(secret, r) ==
    Succeeded(r) /\ ~CanPrint(Shown(secret, ValueOf(r.stdout)))

\* what the branch of a successful fetch prints
FoundOutput(secret, r) ==
    IF ValueRaises(secret, r) THEN <<" OK">>
    ELSE << " OK", "  Value: " \o Validate(secret, ValueOf(r.stdout)) >>
         \o (IF HasWhitespace(r.stdout)
             THEN <<"  WARNING: Has leading/trailing whitespace!">>
             ELSE <<>>)

\* what one loop iteration prints
IterationOutput(secret, r) ==
    IF Succeeded(r)
    THEN <<"Checking: " \o secret>> \o FoundOutput(secret, r)
    ELSE <<"Checking: " \o secret, " NOT FOUND">>

\* mutant: found_secrets.append(secret) outside the if
FoundAfterAlways(found, secret, r) == Append(found, secret)

\* found_secrets after the iteration: found_secrets.append(secret)
FoundAfter(found, secret, r) ==
    IF Succeeded(r) /\ ~ValueRaises(secret, r)
    THEN Append(found, secret) ELSE found

\* missing_secrets after the iteration: missing_secrets.append(secret)
MissingAfter(missing, secret, r) ==
    IF Succeeded(r) THEN missing ELSE Append(missing, secret)

\* the result the iteration appends to results
ResultOf(secret, r) ==
    IF Succeeded(r) THEN FoundResult(secret, r.stdout)
    ELSE MissingResult(secret)

\* results after the iteration: results.append(...)
ResultsAfter(res, secret, r) ==
    IF ValueRaises(secret, r) THEN res ELSE Append(res, ResultOf(secret, r))

\* one iteration of "for secret in SECRETS", the fetch returning r; the
\* process ends with status 1 when the print of the value raises
CheckSecret(r) ==
    LET secret == SECRETS[idx] IN
    /\ fetched' = Append(fetched, [secret |-> secret, rc |-> r.rc,
                                   stdout |-> r.stdout])
    /\ out' = out \o IterationOutput(secret, r)
    /\ found_secrets' = FoundAfter(found_secrets, secret, r)
    /\ missing_secrets' = MissingAfter(missing_secrets, secret, r)
    /\ results' = ResultsAfter(results, secret, r)
    /\ idx' = IF ValueRaises(secret, r) THEN idx ELSE idx + 1
    /\ pc' = IF ValueRaises(secret, r) THEN "done"
             ELSE IF idx = Len(SECRETS) THEN "report" ELSE "loop"
    /\ exit_code' = IF ValueRaises(secret, r) THEN 1 ELSE exit_code
    /\ UNCHANGED <<checks, prereq, unencodable>>

\* the loop, the secret store holding canonical values only
CheckPresence ==
    /\ pc = "loop"
    /\ \E r \in PresenceResults(SECRETS[idx]) : CheckSecret(r)

\* the loop, the secret store holding any value, at most MaxMissing absent
CheckValue ==
    /\ pc = "loop"
    /\ \E r \in ValueResults(SECRETS[idx]) :
          /\ Succeeded(r) \/ Len(missing_secrets) < MaxMissing
          /\ CheckSecret(r)

\* mutant: has_database with "and" in place of "or"
CriticalChecksAndDatabase(found) ==
    [ has_anthropic_key |->
          InSeq("anthropic-api-key", found) \/ InSeq("claude-api-key", found),
      has_jwt_secret |-> InSeq("jwt-secret", found),
      has_database |->
          InSeq("database-url", found) /\ InSeq("db-password", found),
      has_oauth |->
          InSeq("google-client-id", found)
              /\ InSeq("google-client-secret", found),
      has_urls |->
          InSeq("backend-url", found) /\ InSeq("frontend-url", found) ]

\* the five critical checks over found_secrets
CriticalChecks(found) ==
    [ has_anthropic_key |->
          InSeq("anthropic-api-key", found) \/ InSeq("claude-api-key", found),
      has_jwt_secret |-> InSeq("jwt-secret", found),
      has_database |->
          InSeq("database-url", found) \/ InSeq("db-password", found),
      has_oauth |->
          InSeq("google-client-id", found)
              /\ InSeq("google-client-secret", found),
      has_urls |->
          InSeq("backend-url", found) /\ InSeq("frontend-url", found) ]

\* the condition of the final verdict
Verdict(missing, c) ==
    /\ missing = <<>>
    /\ c.has_anthropic_key
    /\ c.has_jwt_secret
    /\ c.has_database
    /\ c.has_oauth
    /\ c.has_urls

SummaryOutput ==
    << "SUMMARY",
       "Total secrets checked: " \o IntStr(Len(SECRETS)),
       "Found: " \o IntStr(Len(found_secrets)),
       "Missing: " \o IntStr(Len(missing_secrets)) >>
    \o (IF missing_secrets # <<>>
        THEN <<"Missing Secrets:">> \o
             [k \in 1..Len(missing_secrets) |-> "  - " \o missing_secrets[k]]
        ELSE <<>>)

ChecksOutput(c) ==
    << "CRITICAL CHECKS:",
       IF c.has_anthropic_key
       THEN "OK Anthropic/Claude API Key: Present"
       ELSE "MISSING Anthropic/Claude API Key: MISSING (CRITICAL!)",
       IF c.has_jwt_secret
       THEN "OK JWT Secret: Present"
       ELSE "MISSING JWT Secret: MISSING (CRITICAL!)",
       IF c.has_database
       THEN "OK Database credentials: Present"
       ELSE "MISSING Database credentials: MISSING (CRITICAL!)",
       IF c.has_oauth
       THEN "OK Google OAuth: Present"
       ELSE "MISSING Google OAuth: MISSING (Authentication won't work!)",
       IF c.has_urls
       THEN "OK Backend/Frontend URLs: Present"
       ELSE "MISSING Backend/Frontend URLs: MISSING (CORS/OAuth will fail!)" >>

VerdictOutput(pass) ==
    IF pass
    THEN << "OK ALL CRITICAL SECRETS PRESENT!",
            "Your backend should be able to start successfully." >>
    ELSE << "WARNING CONFIGURATION INCOMPLETE!",
            "Please add the missing secrets before deploying." >>

\* the summary, the critical checks and the final verdict; main returns
Report ==
    /\ pc = "report"
    /\ checks' = CriticalChecks(found_secrets)
    /\ out' = out \o SummaryOutput \o ChecksOutput(checks')
                  \o VerdictOutput(Verdict(missing_secrets, checks'))
    /\ pc' = "done"
    /\ exit_code' = 0
    /\ UNCHANGED <<idx, results, missing_secrets, found_secrets, prereq,
                   fetched, unencodable>>

Next == CheckGcloud \/ CheckPresence \/ Report

Spec == Init /\ [][Next]_vars

NextValues == CheckGcloud \/ CheckValue \/ Report

SpecValues == Init /\ [][NextValues]_vars

(***************************************************************************)
(* The probe specification: whole runs in which every secret is stored     *)
(* with its canonical value, but for one of the probed secrets, which      *)
(* holds any of the generated values.                                      *)
(***************************************************************************)
\* the spec's example values
ExampleApiKey == SK_ANT \o Text(<<"a", "b", "c", "1", "2", "3">>)
ExampleToken ==
    HEX16 \o HEX16 \o HEX16
        \o Text(<<"a", "b", "c", "d", "e", "f", "0", "1", "2", "3", "4", "5", "6", "7">>)

\* value bodies: runs of a hexadecimal digit of every length up to MaxLen,
\* runs of TokenLen characters that are and are not hexadecimal digits,
\* literal prefixes with and without a tail, and the example values
RuleBodies ==
    {Rep(Ord("a"), n) : n \in 0..MaxLen}
    \cup {Rep(Ord(c), TokenLen) : c \in {"g", "F", "0"}}
    \cup {p \o Rep(Ord("x"), n) :
              p \in {SK_ANT, Text(<<"s", "k", "-">>), Text(<<"x">>) \o SK_ANT},
              n \in 0..3}
    \cup {ExampleApiKey, ExampleToken, ExampleToken \o Text(<<"8", "9">>),
          HEX16 \o HEX16 \o HEX16 \o HEX16,
          Rep(Ord("a"), TokenLen - 1) \o Text(<<"-">>),
          Rep(Ord("A"), 43) \o Text(<<"=">>),
          <<233>> \o Rep(Ord("A"), 43) \o Text(<<"=">>),
          Rep(Ord("A"), 44) \o <<8364>>,
          HTTPS \o <<128512>> \o Text(<<"\\", "x", "0", "b", "\t">>) \o <<11, 96>>
                \o Text(<<"u">>),
          <<128512>> \o GOOGLE_SUFFIX}

\* runs of up to MaxPad characters of the given set
Pads(chars) == UNION {[1..n -> chars] : n \in 0..MaxPad}

\* what gcloud writes for a generated value: a body between whitespace,
\* U+2003 before it, newline after it
RuleStdouts ==
    {before \o body \o after :
        before \in Pads({8195}), after \in Pads({10}),
        body \in RuleBodies}

\* the secrets that are stored with generated values
ProbedSecrets ==
    { "anthropic-api-key", "claude-api-key", "jwt-secret", "encryption-key",
      "token-encryption-key", "google-client-id", "mcp-oauth-redirect-uri" }

\* every fetch so far has returned the canonical value of its secret
CanonicalSoFar ==
    \A k \in 1..Len(fetched) :
        fetched[k].stdout = Success(Canonical(SECRETS[k])).stdout

\* the loop, at most one secret of the store holding a generated value
CheckProbe ==
    /\ pc = "loop"
    /\ \/ CheckSecret(Success(Canonical(SECRETS[idx])))
       \/ /\ SECRETS[idx] \in ProbedSecrets
          /\ CanonicalSoFar
          /\ \E o \in RuleStdouts : CheckSecret(Success(o))

NextProbe == CheckGcloud \/ CheckProbe \/ Report

SpecProbe == Init /\ [][NextProbe]_vars

(***************************************************************************)
(* Properties.                                                             *)
(***************************************************************************)
ToSet(s) == {s[k] : k \in 1..Len(s)}
NoDup(s) == \A i, j \in 1..Len(s) : i # j => s[i] # s[j]

\* the prerequisite check has succeeded
PrereqPassed == prereq # <<>> /\ prereq[1].rc = 0
\* main has returned
Finished == pc = "done" /\ exit_code = 0
\* the loop over SECRETS has finished
LoopFinished == pc = "report" \/ Finished
\* the identifiers whose fetch returned status 0, and those whose fetch did not
FetchedOk == {fetched[k].secret : k \in {j \in 1..Len(fetched) : fetched[j].rc = 0}}
FetchedFailed == {fetched[k].secret : k \in {j \in 1..Len(fetched) : fetched[j].rc # 0}}
\* the verdict printed
VerdictPass == InSeq("OK ALL CRITICAL SECRETS PRESENT!", out)
VerdictIncomplete == InSeq("WARNING CONFIGURATION INCOMPLETE!", out)
AllChecks ==
    /\ checks.has_anthropic_key
    /\ checks.has_jwt_secret
    /\ checks.has_database
    /\ checks.has_oauth
    /\ checks.has_urls
\* the whitespace warning was printed in the iteration of identifier x
WarningFor(x) ==
    \E i \in 1..Len(out) :
        /\ out[i] = "Checking: " \o x
        /\ i + 3 <= Len(out)
        /\ out[i + 3] = "  WARNING: Has leading/trailing whitespace!"

\* C1: once the prerequisite check has succeeded and the loop has finished,
\* results holds exactly one result per identifier of SECRETS, in list order
\* and without duplicates, and every identifier is in exactly one of
\* found_secrets and missing_secrets: the two are disjoint, hold nothing
\* else, and their sizes sum to the length of the list.
C1_OneResultPerIdentifier ==
    (PrereqPassed /\ LoopFinished) =>
        /\ Len(results) = Len(SECRETS)
        /\ \A k \in 1..Len(results) : results[k].secret = SECRETS[k]
        /\ NoDup([k \in 1..Len(results) |-> results[k].secret])
        /\ \A k \in 1..Len(SECRETS) :
              InSeq(SECRETS[k], found_secrets)
                  # InSeq(SECRETS[k], missing_secrets)
        /\ ToSet(found_secrets) \cap ToSet(missing_secrets) = {}
        /\ ToSet(found_secrets) \cup ToSet(missing_secrets) = ToSet(SECRETS)
        /\ NoDup(found_secrets) /\ NoDup(missing_secrets)
        /\ Len(found_secrets) + Len(missing_secrets) = Len(SECRETS)

C1_Witness ==
    /\ Finished
    /\ Len(results) = Len(SECRETS)
    /\ Len(found_secrets) = 7
    /\ Len(missing_secrets) = 7

\* C2: when main has returned, each critical check equals its formula over
\* the found set, the verdict is pass exactly when the missing set is empty
\* and all five checks are true, and database-url missing with db-password
\* found gives has_database true and a verdict that is not pass.
C2_VerdictFormula ==
    Finished =>
        LET F == ToSet(found_secrets) IN
        /\ checks.has_anthropic_key
              = ("anthropic-api-key" \in F \/ "claude-api-key" \in F)
        /\ checks.has_jwt_secret = ("jwt-secret" \in F)
        /\ checks.has_database = ("database-url" \in F \/ "db-password" \in F)
        /\ checks.has_oauth
              = ("google-client-id" \in F /\ "google-client-secret" \in F)
        /\ checks.has_urls = ("backend-url" \in F /\ "frontend-url" \in F)
        /\ VerdictPass = (missing_secrets = <<>> /\ AllChecks)
        /\ VerdictIncomplete = ~VerdictPass
        /\ ("database-url" \notin F /\ "db-password" \in F)
              => (checks.has_database /\ ~VerdictPass)

C2_Witness ==
    /\ Finished
    /\ ~InSeq("database-url", found_secrets)
    /\ InSeq("db-password", found_secrets)
    /\ checks.has_database
    /\ VerdictIncomplete

\* C3: a fetch that returned a non-zero status for identifier X does not end
\* the run: X was fetched once, its result is the Missing result (length 0,
\* message "Not found", no rule applied), X is in missing_secrets and not in
\* found_secrets, the loop goes on to the next identifier, every identifier
\* of the list has been fetched when the process has ended, and
\* has_jwt_secret is false when X is jwt-secret.
C3_FetchFailureNonFatal ==
    \A k \in 1..Len(fetched) :
        fetched[k].rc # 0 =>
            LET X == fetched[k].secret IN
            /\ Cardinality({j \in 1..Len(fetched) : fetched[j].secret = X}) = 1
            /\ k <= Len(results)
            /\ results[k] = [ secret |-> X, status |-> "Missing", length |-> 0,
                              has_whitespace |-> FALSE, display |-> "Not found" ]
            /\ InSeq(X, missing_secrets)
            /\ ~InSeq(X, found_secrets)
            /\ pc = "loop" => (idx = Len(fetched) + 1 /\ idx <= Len(SECRETS))
            /\ pc \in {"report", "done"} =>
                  /\ Len(fetched) = Len(SECRETS)
                  /\ \A j \in 1..Len(fetched) : fetched[j].secret = SECRETS[j]
            /\ (pc = "done" /\ X = "jwt-secret") => ~checks.has_jwt_secret

\* C4: the gcloud check runs once and before any fetch; when it fails the
\* process has exit code 1 with no fetch issued and no result recorded; when
\* it succeeds the process never exits with 1, and it ends with exit code 0
\* after fetching every identifier and printing a verdict, pass or not.
C4_PrerequisiteAndExitCode ==
    /\ Len(prereq) <= 1
    /\ prereq = <<>> => (pc = "start" /\ fetched = <<>> /\ results = <<>>)
    /\ (prereq # <<>> /\ prereq[1].rc # 0) =>
          /\ pc = "done"
          /\ exit_code = 1
          /\ fetched = <<>>
          /\ results = <<>>
    /\ PrereqPassed =>
          /\ exit_code # 1
          /\ pc # "start"
          /\ pc = "done" =>
                /\ exit_code = 0
                /\ Len(fetched) = Len(SECRETS)
                /\ VerdictPass \/ VerdictIncomplete
    /\ (pc = "done") = (exit_code \in {0, 1})

\* C5: every identifier whose fetch returned status 0 has status Found, is
\* in found_secrets and not in missing_secrets, whatever message its rule
\* produced; the critical checks count it as found and the verdict is pass
\* exactly when no fetch failed.
C5_ValidationDoesNotChangeStatus ==
    /\ \A k \in 1..Len(fetched) :
          fetched[k].rc = 0 =>
              /\ k <= Len(results)
              /\ results[k].secret = fetched[k].secret
              /\ results[k].status = "Found"
              /\ InSeq(fetched[k].secret, found_secrets)
              /\ ~InSeq(fetched[k].secret, missing_secrets)
    /\ Finished =>
          /\ checks.has_anthropic_key
                = ("anthropic-api-key" \in FetchedOk
                       \/ "claude-api-key" \in FetchedOk)
          /\ checks.has_jwt_secret = ("jwt-secret" \in FetchedOk)
          /\ checks.has_database
                = ("database-url" \in FetchedOk \/ "db-password" \in FetchedOk)
          /\ checks.has_oauth
                = ("google-client-id" \in FetchedOk
                       /\ "google-client-secret" \in FetchedOk)
          /\ checks.has_urls
                = ("backend-url" \in FetchedOk /\ "frontend-url" \in FetchedOk)
          /\ VerdictPass = (FetchedFailed = {})

\* C6: for every fetch that returned status 0 and has its result recorded,
\* the whitespace flag of the result is set and the warning is printed
\* exactly when the raw stdout has whitespace at its start or at its end.
C6_WhitespaceFlagged ==
    \A k \in 1..Len(results) :
        fetched[k].rc = 0 =>
            LET raw == fetched[k].stdout
                padded == /\ raw # <<>>
                          /\ (raw[1] \in Whitespace
                                  \/ raw[Len(raw)] \in Whitespace)
            IN  /\ results[k].has_whitespace = padded
                /\ WarningFor(fetched[k].secret) = padded

\* the position of an identifier in SECRETS
Pos(secret) == CHOOSE k \in 1..Len(SECRETS) : SECRETS[k] = secret
\* the loop has recorded a result for a successful fetch of the identifier
RuleApplied(secret) ==
    /\ Len(results) >= Pos(secret)
    /\ fetched[Pos(secret)].rc = 0
\* the value of the identifier, the result recorded for it
ValueAt(secret) == ValueOf(fetched[Pos(secret)].stdout)
ResultAt(secret) == results[Pos(secret)]
IsHex64(value) ==
    /\ Len(value) = 64
    /\ \A k \in 1..Len(value) : value[k] \in HexChars

\* C7 as stated: token-encryption-key is valid exactly when the value has
\* 64 characters, all hexadecimal, an invalid value reports its length, and
\* the spec's example value is valid.
C7_Original ==
    RuleApplied("token-encryption-key") =>
        LET value == ValueAt("token-encryption-key")
            result == ResultAt("token-encryption-key")
        IN  /\ (result.display = "****... (64 hex chars) OK") = IsHex64(value)
            /\ ~IsHex64(value) =>
                  result.display
                      = "INVALID! Need 64 hex chars, got " \o IntStr(Len(value))
            /\ value = ExampleToken =>
                  result.display = "****... (64 hex chars) OK"

\* C7 amended: token-encryption-key is valid exactly when the value has 64
\* characters, all hexadecimal, an invalid value reports its length, and
\* the spec's example value, which has 62 characters, is invalid with
\* reported length 62.
C7_TokenRule ==
    RuleApplied("token-encryption-key") =>
        LET value == ValueAt("token-encryption-key")
            result == ResultAt("token-encryption-key")
        IN  /\ (result.display = "****... (64 hex chars) OK") = IsHex64(value)
            /\ ~IsHex64(value) =>
                  result.display
                      = "INVALID! Need 64 hex chars, got " \o IntStr(Len(value))
            /\ value = ExampleToken =>
                  /\ result.length = 62
                  /\ result.display = "INVALID! Need 64 hex chars, got 62"

C7_Witness ==
    /\ Finished
    /\ fetched[5].secret = "token-encryption-key"
    /\ fetched[5].stdout = ExampleToken
    /\ results[5].display = "INVALID! Need 64 hex chars, got 62"

HasSkAntPrefix(value) ==
    /\ Len(value) >= 7
    /\ SubSeq(value, 1, 7) = Text(<<"s", "k", "-", "a", "n", "t", "-">>)

\* what C8 says of the result recorded for the value of an API key
ApiKeyAsStated(value, result) ==
    /\ (result.display # "INVALID FORMAT! Should start with 'sk-ant-'")
          = HasSkAntPrefix(value)
    /\ HasSkAntPrefix(value) =>
          result.display
              = "sk-ant-****... " \o IntStr(Len(value)) \o " chars OK"

\* C8 as stated: anthropic-api-key and claude-api-key are valid exactly
\* when the value starts with sk-ant-, a valid outcome reports the length,
\* and sk-ant-abc123 under anthropic-api-key is valid with length 14.
C8_Original ==
    /\ RuleApplied("anthropic-api-key") =>
          /\ ApiKeyAsStated(ValueAt("anthropic-api-key"),
                            ResultAt("anthropic-api-key"))
          /\ ValueAt("anthropic-api-key") = ExampleApiKey =>
                /\ ResultAt("anthropic-api-key").length = 14
                /\ ResultAt("anthropic-api-key").display
                      = "sk-ant-****... 14 chars OK"
    /\ RuleApplied("claude-api-key") =>
          ApiKeyAsStated(ValueAt("claude-api-key"), ResultAt("claude-api-key"))

\* C8 amended: anthropic-api-key and claude-api-key are valid exactly when
\* the value starts with sk-ant-, a valid outcome reports the length, and
\* sk-ant-abc123 under anthropic-api-key is valid with length 13.
C8_ApiKeyRule ==
    /\ RuleApplied("anthropic-api-key") =>
          /\ ApiKeyAsStated(ValueAt("anthropic-api-key"),
                            ResultAt("anthropic-api-key"))
          /\ ValueAt("anthropic-api-key") = ExampleApiKey =>
                /\ ResultAt("anthropic-api-key").length = 13
                /\ ResultAt("anthropic-api-key").display
                      = "sk-ant-****... 13 chars OK"
    /\ RuleApplied("claude-api-key") =>
          ApiKeyAsStated(ValueAt("claude-api-key"), ResultAt("claude-api-key"))

C8_Witness ==
    /\ Finished
    /\ fetched[1].secret = "anthropic-api-key"
    /\ fetched[1].stdout = ExampleApiKey
    /\ results[1].display = "sk-ant-****... 13 chars OK"

\* C9: jwt-secret is valid exactly when the value has at least 32
\* characters; a shorter value gets the too-short message with its length:
\* length 20 reports 20, length 31 is too short, length 32 is valid.
C9_JwtRule ==
    RuleApplied("jwt-secret") =>
        LET n == Len(ValueAt("jwt-secret"))
            result == ResultAt("jwt-secret")
        IN  /\ (result.display = "****... " \o IntStr(n) \o " chars OK")
                  = (n >= 32)
            /\ n < 32 =>
                  result.display
                      = "TOO SHORT! Only " \o IntStr(n) \o " chars (need 32+)"
            /\ n = 20 =>
                  result.display = "TOO SHORT! Only 20 chars (need 32+)"
            /\ n = 31 =>
                  result.display = "TOO SHORT! Only 31 chars (need 32+)"
            /\ n = 32 => result.display = "****... 32 chars OK"
            /\ result.length = n

C9_Witness ==
    /\ Finished
    /\ fetched[3].secret = "jwt-secret"
    /\ Len(fetched[3].stdout) = 31
    /\ results[3].display = "TOO SHORT! Only 31 chars (need 32+)"

\* C10: when main has returned, an empty missing set makes all five
\* critical checks true, so the verdict is pass exactly when the missing
\* set is empty, which is exactly when every fetch returned status 0; the
\* missing set is never empty with the verdict incomplete.
C10_ChecksNeverDecide ==
    Finished =>
        /\ missing_secrets = <<>> => AllChecks
        /\ VerdictPass = (missing_secrets = <<>>)
        /\ VerdictPass = (FetchedFailed = {} /\ Len(fetched) = 14)
        /\ ~(missing_secrets = <<>> /\ VerdictIncomplete)

C10_Witness ==
    /\ Finished
    /\ missing_secrets = <<>>
    /\ AllChecks
    /\ VerdictPass

====
